---- MODULE Spec2Model ----
(***************************************************************************)
(* Model of the research-assistant nodes of assistant/utils.py and         *)
(* assistant/nodes.py: the source formatter, the DuckDuckGo and Perplexity *)
(* search wrappers and the local retriever node.                           *)
(*                                                                         *)
(* Text is modelled as a sequence of tokens.  A token is one whitespace    *)
(* character (" " or "\n"), one character of a free text (raw content,     *)
(* page content), or an atomic piece that neither starts nor ends with     *)
(* whitespace inside a longer text (a template literal, a url, a title).   *)
(***************************************************************************)
EXTENDS Integers, Sequences, FiniteSets, TLC

VARIABLES
    \* deduplicate_and_format_sources: the call's arguments and its outcome
    search_response, max_tokens_per_source, include_raw_content, fmt_pc, fmt_result,
    \* duckduckgo_search: the call's argument, the loop's locals, the provider's
    \* outcomes so far, the sleeps so far and the outcome
    fetch_full_page, ddg_pc, attempt, retry_delay, provider_log, slept, ddg_result,
    \* local_rag_node: the state's query, the retriever's invocations and the outcome
    search_query, rag_pc, invocations, retrieved, rag_result,
    \* perplexity_search: the HTTP response, the loop count and the outcome
    response, perplexity_search_loop_count, pplx_pc, pplx_result

fmtVars == <<search_response, max_tokens_per_source, include_raw_content, fmt_pc, fmt_result>>
ddgVars == <<fetch_full_page, ddg_pc, attempt, retry_delay, provider_log, slept, ddg_result>>
ragVars == <<search_query, rag_pc, invocations, retrieved, rag_result>>
pplxVars == <<response, perplexity_search_loop_count, pplx_pc, pplx_result>>
vars == <<fmtVars, ddgVars, ragVars, pplxVars>>

(***************************************************************************)
(* Bounds of the model.                                                    *)
(***************************************************************************)
\* sources in a single result-batch given as the whole input
MaxSources == 3
\* elements of a sequence input, and sources in one element of it
MaxBatches == 2
MaxPerBatch == 1
\* max_tokens_per_source ranges over 0..MaxTokens
MaxTokens == 1
\* characters of one raw content
MaxRawLen == 5

(***************************************************************************)
(* Generic helpers.                                                        *)
(***************************************************************************)
SeqsUpTo(S, n) == UNION {[1..k -> S] : k \in 0..n}

Whitespace == {" ", "\n"}

\* the text's first n tokens (Python's s[:n] for n >= 0)
Take(s, n) == SubSeq(s, 1, IF n < Len(s) THEN n ELSE Len(s))

RECURSIVE LStrip(_)
LStrip(s) ==
    IF s # <<>> /\ Head(s) \in Whitespace THEN LStrip(Tail(s)) ELSE s

RECURSIVE RStrip(_)
RStrip(s) ==
    IF s # <<>> /\ s[Len(s)] \in Whitespace THEN RStrip(SubSeq(s, 1, Len(s) - 1)) ELSE s

\* str.strip(): leading and trailing whitespace removed
Strip(s) == LStrip(RStrip(s))

(***************************************************************************)
(* Values handed to deduplicate_and_format_sources.                        *)
(* A source is a mapping with url, title, content and an optional          *)
(* raw_content: raw.tag is "missing" (no key), "none" (None) or "str".     *)
(* A value is a result-batch (a dict with 'results'), a dict without       *)
(* 'results' (its keys listed), a list (of sources as an element, of       *)
(* elements as the whole input) or a scalar.                               *)
(***************************************************************************)
RawMissing == [tag |-> "missing", s |-> <<>>]
RawNone == [tag |-> "none", s |-> <<>>]
RawStr(s) == [tag |-> "str", s |-> s]

Source(u, t, c, r) == [url |-> u, title |-> t, content |-> c, raw |-> r]

Batch(rs) == [kind |-> "batch", results |-> rs, keys |-> <<>>, elems |-> <<>>]
DictNoResults(ks) == [kind |-> "dict", results |-> <<>>, keys |-> ks, elems |-> <<>>]
ListOfSources(rs) == [kind |-> "list", results |-> rs, keys |-> <<>>, elems |-> <<>>]
ListOf(es) == [kind |-> "list", results |-> <<>>, keys |-> <<>>, elems |-> es]
Scalar == [kind |-> "scalar", results |-> <<>>, keys |-> <<>>, elems |-> <<>>]

\* an outcome of a call: err is "none" or the exception's class, text the string returned
Returned(t) == [err |-> "none", text |-> t]
Raised(e) == [err |-> e, text |-> <<>>]
NotCalled == [err |-> "pending", text |-> <<>>]

(***************************************************************************)
(* deduplicate_and_format_sources                                          *)
(***************************************************************************)
\* An item of sources_list: a source, or a string (a key of a dict that was
\* extended into the list).
SourceItem(s) == [is_str |-> FALSE, source |-> s]
StrItem == [is_str |-> TRUE, source |-> Source("", "", "", RawMissing)]

RECURSIVE Items(_)
Items(rs) == IF rs = <<>> THEN <<>> ELSE <<SourceItem(Head(rs))>> \o Items(Tail(rs))

RECURSIVE StrItems(_)
StrItems(ks) == IF ks = <<>> THEN <<>> ELSE <<StrItem>> \o StrItems(Tail(ks))

\* ExtendWith with an element that is not iterable skipped instead of failing
ExtendWithSkip(e) ==
    CASE e.kind = "batch" -> [err |-> "none", items |-> Items(e.results)]
      [] e.kind = "list" -> [err |-> "none", items |-> Items(e.results)]
      [] e.kind = "dict" -> [err |-> "none", items |-> StrItems(e.keys)]
      [] OTHER -> [err |-> "none", items |-> <<>>]

\* sources_list.extend(...) for one element of a list input; err is "TypeError"
\* when the element is not iterable
ExtendWith(e) ==
    CASE e.kind = "batch" -> [err |-> "none", items |-> Items(e.results)]
      [] e.kind = "list" -> [err |-> "none", items |-> Items(e.results)]
      [] e.kind = "dict" -> [err |-> "none", items |-> StrItems(e.keys)]
      [] OTHER -> [err |-> "TypeError", items |-> <<>>]

RECURSIVE FlattenElems(_)
FlattenElems(es) ==
    IF es = <<>> THEN [err |-> "none", items |-> <<>>]
    ELSE LET h == ExtendWith(Head(es))
         IN  IF h.err # "none" THEN h
             ELSE LET t == FlattenElems(Tail(es))
                  IN  IF t.err # "none" THEN t
                      ELSE [err |-> "none", items |-> h.items \o t.items]

\* "Convert input to list of results"
SourcesList(sr) ==
    CASE sr.kind = "batch" -> [err |-> "none", items |-> Items(sr.results)]
      [] sr.kind = "dict" -> [err |-> "KeyError", items |-> <<>>]
      [] sr.kind = "list" -> FlattenElems(sr.elems)
      [] OTHER -> [err |-> "ValueError", items |-> <<>>]

HasUrl(unique, u) == \E i \in 1..Len(unique) : unique[i].url = u

\* Dedup without the membership test: a later entry replaces the stored one
RECURSIVE DedupLastWins(_, _)
DedupLastWins(items, unique) ==
    IF items = <<>> THEN [err |-> "none", unique |-> unique]
    ELSE IF Head(items).is_str THEN [err |-> "TypeError", unique |-> <<>>]
    ELSE LET s == Head(items).source
         IN  DedupLastWins(Tail(items),
                 IF HasUrl(unique, s.url)
                 THEN [i \in 1..Len(unique) |->
                          IF unique[i].url = s.url THEN s ELSE unique[i]]
                 ELSE Append(unique, s))

\* "Deduplicate by URL": unique_sources in insertion order; source['url'] on a
\* string raises TypeError
RECURSIVE Dedup(_, _)
Dedup(items, unique) ==
    IF items = <<>> THEN [err |-> "none", unique |-> unique]
    ELSE IF Head(items).is_str THEN [err |-> "TypeError", unique |-> <<>>]
    ELSE LET s == Head(items).source
         IN  Dedup(Tail(items), IF HasUrl(unique, s.url) THEN unique ELSE Append(unique, s))

Marker == "... [truncated]"
CharsPerToken == 4

\* RawRendered with the length test off by one (>= for >)
RawRenderedOffByOne(source, max_tokens) ==
    LET char_limit == max_tokens * CharsPerToken
        raw_content == IF source.raw.tag = "str" THEN source.raw.s ELSE <<>>
    IN  IF Len(raw_content) >= char_limit
        THEN Take(raw_content, char_limit) \o <<Marker>>
        ELSE raw_content

\* the raw content written for one source
RawRendered(source, max_tokens) ==
    LET char_limit == max_tokens * CharsPerToken
        raw_content == IF source.raw.tag = "str" THEN source.raw.s ELSE <<>>
    IN  IF Len(raw_content) > char_limit
        THEN Take(raw_content, char_limit) \o <<Marker>>
        ELSE raw_content

\* the text appended for one source
Block(source, max_tokens, include_raw) ==
    <<"Source ", source.title, ":\n===", "\n">>
    \o <<"URL: ", source.url, "\n===", "\n">>
    \o <<"Most relevant content from source: ", source.content, "\n===", "\n">>
    \o (IF include_raw
        THEN <<"Full source content limited to ", ToString(max_tokens), " tokens:", " ">>
             \o RawRendered(source, max_tokens) \o <<"\n", "\n">>
        ELSE <<>>)

RECURSIVE Blocks(_, _, _)
Blocks(unique, max_tokens, include_raw) ==
    IF unique = <<>> THEN <<>>
    ELSE Block(Head(unique), max_tokens, include_raw)
         \o Blocks(Tail(unique), max_tokens, include_raw)

FormattedText(unique, max_tokens, include_raw) ==
    Strip(<<"Sources:", "\n", "\n">> \o Blocks(unique, max_tokens, include_raw))

deduplicate_and_format_sources(sr, max_tokens, include_raw) ==
    LET sl == SourcesList(sr)
    IN  IF sl.err # "none" THEN Raised(sl.err)
        ELSE LET d == Dedup(sl.items, <<>>)
             IN  IF d.err # "none" THEN Raised(d.err)
                 ELSE Returned(FormattedText(d.unique, max_tokens, include_raw))

\* one call of the formatter on the arguments chosen initially
FormatCall ==
    /\ fmt_pc = "ready"
    /\ fmt_result' = deduplicate_and_format_sources(
                         search_response, max_tokens_per_source, include_raw_content)
    /\ fmt_pc' = "done"
    /\ UNCHANGED <<search_response, max_tokens_per_source, include_raw_content>>
    /\ UNCHANGED <<ddgVars, ragVars, pplxVars>>

(***************************************************************************)
(* Inputs of the formatter.                                                *)
(***************************************************************************)
Urls == {"u1", "u2"}

\* two entries may share a url and differ in title and content
SourceSet ==
    {Source(u, "t1", "c1", RawMissing) : u \in Urls}
    \cup {Source(u, "t2", "c2", RawStr(<<"a", "b">>)) : u \in Urls}

ElementSet ==
    {Batch(rs) : rs \in SeqsUpTo(SourceSet, MaxPerBatch)}
    \cup {ListOfSources(rs) : rs \in SeqsUpTo(SourceSet, MaxPerBatch)}
    \cup {DictNoResults(<<>>), DictNoResults(<<"query">>), Scalar}

FormatInputs ==
    {Batch(rs) : rs \in SeqsUpTo(SourceSet, MaxSources)}
    \cup {ListOf(es) : es \in SeqsUpTo(ElementSet, MaxBatches)}
    \cup {DictNoResults(<<"query">>), Scalar}

RawChars == {"a", " "}

RawContents ==
    {RawMissing, RawNone} \cup {RawStr(s) : s \in SeqsUpTo(RawChars, MaxRawLen)}

\* a batch of one or two sources with distinct urls, any raw content
TruncInputs ==
    {Batch(<<Source("u1", "t1", "c1", r)>>) : r \in RawContents}
    \cup {Batch(<<Source("u1", "t1", "c1", r1), Source("u2", "t2", "c2", r2)>>) :
            r1 \in RawContents, r2 \in RawContents}

IdleFmt ==
    /\ search_response = Scalar
    /\ max_tokens_per_source = 0
    /\ include_raw_content = FALSE
    /\ fmt_pc = "idle"
    /\ fmt_result = NotCalled

(***************************************************************************)
(* Python values that may be None: a string, or None.                      *)
(***************************************************************************)
PyNone == [is_none |-> TRUE, s |-> ""]
PyStr(x) == [is_none |-> FALSE, s |-> x]

\* Python's truth value of an optional string: None and "" are false
Truthy(v) == ~v.is_none /\ v.s # ""

(***************************************************************************)
(* duckduckgo_search                                                       *)
(***************************************************************************)
\* records the provider returns from one attempt
MaxRecords == 2

\* a retry budget of one attempt more
max_retries_4 == 3 + 1

max_retries == 3
initial_retry_delay == 2

\* one record of ddgs.text(...): r.get('href'), r.get('title'), r.get('body')
ProviderRecords ==
    {[href |-> h, title |-> t, body |-> b] :
        h \in {PyNone, PyStr("h1"), PyStr("h2")},
        t \in {PyStr(""), PyStr("t")},
        b \in {PyNone, PyStr("b")}}

\* str(e) of the exceptions an attempt may raise, as words
ErrorMessages == {<<"202", "Ratelimit">>, <<"Ratelimit">>, <<"timed", "out">>, <<>>}

\* urlopen(url) for one record: the page's text, or a failure
FetchFailed == PyNone
PageOutcomes == {FetchFailed, PyStr("page")}

\* what one attempt meets: the provider's records and the outcome of the page
\* fetch of each, or an exception with its message
Succeeds(recs, pages) == [ok |-> TRUE, records |-> recs, pages |-> pages, msg |-> <<>>]
Fails(msg) == [ok |-> FALSE, records |-> <<>>, pages |-> <<>>, msg |-> msg]

NoPages(n) == [i \in 1..n |-> FetchFailed]

\* all([url, title, content])
AllPresent(r) == Truthy(r.href) /\ Truthy(r.title) /\ Truthy(r.body)

\* a page is fetched only with fetch_full_page, and only for a record that is kept
PagesFor(recs, full_page) ==
    IF full_page
    THEN {pages \in [1..Len(recs) -> PageOutcomes] :
             \A i \in 1..Len(recs) : ~AllPresent(recs[i]) => pages[i] = FetchFailed}
    ELSE {NoPages(Len(recs))}

ProviderOutcomes(full_page) ==
    {Fails(m) : m \in ErrorMessages}
    \cup UNION {{Succeeds(recs, pages) : pages \in PagesFor(recs, full_page)} :
                recs \in SeqsUpTo(ProviderRecords, MaxRecords)}

\* "Ratelimit" in str(e)
IsRateLimit(msg) == \E i \in 1..Len(msg) : msg[i] = "Ratelimit"

\* the result built from one provider record
ResultOf(r, page, full_page) ==
    [title |-> r.title.s, url |-> r.href.s, content |-> r.body.s,
     raw_content |-> IF full_page /\ page # FetchFailed THEN page.s ELSE r.body.s]

\* ResultsFrom with any(...) for all(...): a record is kept when one field is there
RECURSIVE ResultsFromAny(_, _, _, _)
ResultsFromAny(recs, pages, full_page, i) ==
    IF i > Len(recs) THEN <<>>
    ELSE LET r == recs[i]
         IN  IF ~(Truthy(r.href) \/ Truthy(r.title) \/ Truthy(r.body))
             THEN ResultsFromAny(recs, pages, full_page, i + 1)
             ELSE <<ResultOf(r, pages[i], full_page)>>
                  \o ResultsFromAny(recs, pages, full_page, i + 1)

\* the loop over search_results: incomplete records are skipped
RECURSIVE ResultsFrom(_, _, _, _)
ResultsFrom(recs, pages, full_page, i) ==
    IF i > Len(recs) THEN <<>>
    ELSE LET r == recs[i]
         IN  IF ~AllPresent(r)
             THEN ResultsFrom(recs, pages, full_page, i + 1)
             ELSE <<ResultOf(r, pages[i], full_page)>>
                  \o ResultsFrom(recs, pages, full_page, i + 1)

\* ShouldRetry with "or" for "and"
ShouldRetryOr(msg, att) == IsRateLimit(msg) \/ att < max_retries - 1

\* the except clause's choice: sleep and retry, or give up with no results
ShouldRetry(msg, att) == IsRateLimit(msg) /\ att < max_retries - 1

DdgReturned(rs) == [err |-> "none", results |-> rs]
DdgPending == [err |-> "pending", results |-> <<>>]

\* one pass through the try block of the retry loop
DdgAttempt ==
    /\ ddg_pc = "attempt"
    /\ \E out \in ProviderOutcomes(fetch_full_page) :
          /\ provider_log' = Append(provider_log, out)
          /\ IF out.ok
             THEN /\ ddg_result' = DdgReturned(
                                       ResultsFrom(out.records, out.pages, fetch_full_page, 1))
                  /\ ddg_pc' = "done"
             ELSE IF ShouldRetry(out.msg, attempt)
             THEN /\ ddg_pc' = "sleep"
                  /\ UNCHANGED ddg_result
             ELSE /\ ddg_result' = DdgReturned(<<>>)
                  /\ ddg_pc' = "done"
    /\ UNCHANGED <<fetch_full_page, attempt, retry_delay, slept>>
    /\ UNCHANGED <<fmtVars, ragVars, pplxVars>>

\* DdgSleep with the delay doubled before the sleep instead of after it
DdgSleepDoublesFirst ==
    /\ ddg_pc = "sleep"
    /\ slept' = Append(slept, retry_delay * 2)
    /\ retry_delay' = retry_delay * 2
    /\ attempt' = attempt + 1
    /\ IF attempt + 1 < max_retries
       THEN /\ ddg_pc' = "attempt"
            /\ UNCHANGED ddg_result
       ELSE /\ ddg_pc' = "done"
            /\ ddg_result' = DdgReturned(<<>>)
    /\ UNCHANGED <<fetch_full_page, provider_log>>
    /\ UNCHANGED <<fmtVars, ragVars, pplxVars>>

\* time.sleep(retry_delay); retry_delay *= 2; continue
DdgSleep ==
    /\ ddg_pc = "sleep"
    /\ slept' = Append(slept, retry_delay)
    /\ retry_delay' = retry_delay * 2
    /\ attempt' = attempt + 1
    /\ IF attempt + 1 < max_retries
       THEN /\ ddg_pc' = "attempt"
            /\ UNCHANGED ddg_result
       ELSE /\ ddg_pc' = "done"
            /\ ddg_result' = DdgReturned(<<>>)
    /\ UNCHANGED <<fetch_full_page, provider_log>>
    /\ UNCHANGED <<fmtVars, ragVars, pplxVars>>

IdleDdg ==
    /\ fetch_full_page = FALSE
    /\ ddg_pc = "idle"
    /\ attempt = 0
    /\ retry_delay = initial_retry_delay
    /\ provider_log = <<>>
    /\ slept = <<>>
    /\ ddg_result = DdgPending

(***************************************************************************)
(* local_rag_node                                                          *)
(***************************************************************************)
\* documents the retriever returns, and characters of one page_content
MaxDocs == 2
MaxContentLen == 2

ContentChars == {"a", "\n"}

\* a document's page_content: a string, or a value that is no string
PageText(t) == [is_str |-> TRUE, text |-> t]
NotText == [is_str |-> FALSE, text |-> <<>>]

PageContents == {NotText} \cup {PageText(t) : t \in SeqsUpTo(ContentChars, MaxContentLen)}

\* retriever.invoke(query): documents, or an exception
Retrieves(docs) == [raises |-> FALSE, docs |-> docs]
RetrieverRaises == [raises |-> TRUE, docs |-> <<>>]
NotRetrieved == [raises |-> FALSE, docs |-> <<>>]

RetrieverOutcomes ==
    {RetrieverRaises} \cup {Retrieves(d) : d \in SeqsUpTo(PageContents, MaxDocs)}

\* state.search_query of a SummaryState: None by default, or a string
SearchQueries == {PyNone, PyStr(""), PyStr("test query"), PyStr(" ")}

\* a separator of one line break
SeparatorOne == <<"\n">>

Separator == <<"\n", "\n">>

\* "\n\n".join([doc.page_content for doc in docs]) on strings
RECURSIVE Join(_)
Join(docs) ==
    IF docs = <<>> THEN <<>>
    ELSE IF Len(docs) = 1 THEN docs[1].text
    ELSE docs[1].text \o Separator \o Join(Tail(docs))

\* AfterInvoke without the except clause: the retriever's exception propagates
AfterInvokeNoExcept(out) ==
    IF out.raises THEN Raised("Exception")
    ELSE IF \E i \in 1..Len(out.docs) : ~out.docs[i].is_str THEN Raised("TypeError")
    ELSE Returned(Join(out.docs))

\* the try block after retriever.invoke: the except clause turns the retriever's
\* exception, and join's TypeError on a page_content that is no string, into ""
AfterInvoke(out) ==
    IF out.raises THEN Returned(<<>>)
    ELSE IF \E i \in 1..Len(out.docs) : ~out.docs[i].is_str THEN Returned(<<>>)
    ELSE Returned(Join(out.docs))

\* NoQuery with only None taken for "no query"
NoQueryNoneOnly(q) == q.is_none

\* not state.search_query
NoQuery(q) == ~Truthy(q)

local_rag_node ==
    /\ rag_pc = "ready"
    /\ rag_pc' = "done"
    /\ IF NoQuery(search_query)
       THEN /\ rag_result' = Returned(<<>>)
            /\ UNCHANGED <<invocations, retrieved>>
       ELSE \E out \in RetrieverOutcomes :
               /\ invocations' = Append(invocations, search_query.s)
               /\ retrieved' = out
               /\ rag_result' = AfterInvoke(out)
    /\ UNCHANGED search_query
    /\ UNCHANGED <<fmtVars, ddgVars, pplxVars>>

IdleRag ==
    /\ search_query = PyNone
    /\ rag_pc = "idle"
    /\ invocations = <<>>
    /\ retrieved = NotRetrieved
    /\ rag_result = NotCalled

(***************************************************************************)
(* perplexity_search                                                       *)
(***************************************************************************)
\* citations of one response, and the largest loop count
MaxCitations == 3
MaxLoop == 1

StatusCodes == {200, 201, 404, 500}
CitationUrls == {"p1", "p2"}
DefaultCitation == "https://perplexity.ai"
Placeholder == "See above for full content"

\* the HTTP response: its status, whether data["choices"][0]["message"]["content"]
\* exists and its value, and data's "citations" (absent, or a list of urls)
Responses ==
    {[status |-> st, has_content |-> hc, content |-> IF hc THEN "answer" ELSE "",
      has_citations |-> cp, citations |-> cs] :
        st \in StatusCodes, hc \in BOOLEAN, cp \in BOOLEAN,
        cs \in SeqsUpTo(CitationUrls, MaxCitations)}

NormalResponses == {r \in Responses : r.has_citations \/ r.citations = <<>>}

\* response.raise_for_status()
IsErrorStatus(st) == 400 <= st /\ st < 600

\* data.get("citations", ["https://perplexity.ai"])
CitationsOf(r) == IF r.has_citations THEN r.citations ELSE <<DefaultCitation>>

Title(loop_count, n) ==
    <<"Perplexity Search ", ToString(loop_count + 1), ", Source ", ToString(n)>>

FirstResult(content, citation, loop_count) ==
    [title |-> Title(loop_count, 1), url |-> citation,
     content |-> content, raw_content |-> PyStr(content)]

\* for i, citation in enumerate(citations[1:], start=2)
RECURSIVE MoreResults(_, _, _)
MoreResults(rest, loop_count, i) ==
    IF rest = <<>> THEN <<>>
    ELSE <<[title |-> Title(loop_count, i), url |-> Head(rest),
            content |-> Placeholder, raw_content |-> PyNone]>>
         \o MoreResults(Tail(rest), loop_count, i + 1)

PplxReturned(rs) == [err |-> "none", results |-> rs]
PplxRaised(e) == [err |-> e, results |-> <<>>]
PplxPending == [err |-> "pending", results |-> <<>>]

perplexity_search(r, loop_count) ==
    IF IsErrorStatus(r.status) THEN PplxRaised("HTTPError")
    ELSE IF ~r.has_content THEN PplxRaised("KeyError")
    ELSE LET citations == CitationsOf(r)
         IN  IF citations = <<>> THEN PplxRaised("IndexError")
             ELSE PplxReturned(<<FirstResult(r.content, citations[1], loop_count)>>
                               \o MoreResults(Tail(citations), loop_count, 2))

\* one call of perplexity_search on the response chosen initially
PerplexityCall ==
    /\ pplx_pc = "ready"
    /\ pplx_result' = perplexity_search(response, perplexity_search_loop_count)
    /\ pplx_pc' = "done"
    /\ UNCHANGED <<response, perplexity_search_loop_count>>
    /\ UNCHANGED <<fmtVars, ddgVars, ragVars>>

IdlePplx ==
    /\ response \in {r \in NormalResponses : r.status = 200 /\ ~r.has_content /\ ~r.has_citations}
    /\ perplexity_search_loop_count = 0
    /\ pplx_pc = "idle"
    /\ pplx_result = PplxPending

(***************************************************************************)
(* Specifications: one per function, each started on every input of its    *)
(* bounded input set.                                                      *)
(***************************************************************************)
InitFormat ==
    /\ search_response \in FormatInputs
    /\ max_tokens_per_source = MaxTokens
    /\ include_raw_content \in BOOLEAN
    /\ fmt_pc = "ready"
    /\ fmt_result = NotCalled
    /\ IdleDdg /\ IdleRag /\ IdlePplx

InitTrunc ==
    /\ search_response \in TruncInputs
    /\ max_tokens_per_source \in 0..MaxTokens
    /\ include_raw_content \in BOOLEAN
    /\ fmt_pc = "ready"
    /\ fmt_result = NotCalled
    /\ IdleDdg /\ IdleRag /\ IdlePplx

NextFormat == FormatCall

SpecFormat == InitFormat /\ [][NextFormat]_vars

SpecTrunc == InitTrunc /\ [][NextFormat]_vars

InitDdg ==
    /\ fetch_full_page \in BOOLEAN
    /\ ddg_pc = "attempt"
    /\ attempt = 0
    /\ retry_delay = initial_retry_delay
    /\ provider_log = <<>>
    /\ slept = <<>>
    /\ ddg_result = DdgPending
    /\ IdleFmt /\ IdleRag /\ IdlePplx

NextDdg == DdgAttempt \/ DdgSleep

SpecDdg == InitDdg /\ [][NextDdg]_vars

InitRag ==
    /\ search_query \in SearchQueries
    /\ rag_pc = "ready"
    /\ invocations = <<>>
    /\ retrieved = NotRetrieved
    /\ rag_result = NotCalled
    /\ IdleFmt /\ IdleDdg /\ IdlePplx

NextRag == local_rag_node

SpecRag == InitRag /\ [][NextRag]_vars

InitPplx ==
    /\ response \in NormalResponses
    /\ perplexity_search_loop_count \in 0..MaxLoop
    /\ pplx_pc = "ready"
    /\ pplx_result = PplxPending
    /\ IdleFmt /\ IdleDdg /\ IdleRag

NextPplx == PerplexityCall

SpecPplx == InitPplx /\ [][NextPplx]_vars

(***************************************************************************)
(* Properties of deduplicate_and_format_sources.                           *)
(***************************************************************************)
\* the input is one result-batch or a sequence of result-batches
WellShaped(sr) ==
    \/ sr.kind = "batch"
    \/ sr.kind = "list" /\ \A i \in 1..Len(sr.elems) : sr.elems[i].kind = "batch"

\* the batches of a well-shaped input, in order
BatchesOf(sr) ==
    IF sr.kind = "batch" THEN <<sr.results>>
    ELSE [i \in 1..Len(sr.elems) |-> sr.elems[i].results]

\* the entries of the flattened sequence, named by <<batch, index>>, and their order
EntriesOf(bs) == {<<b, i>> : b \in 1..Len(bs), i \in 1..MaxSources + 1} \cap
                 UNION {{<<b, i>> : i \in 1..Len(bs[b])} : b \in 1..Len(bs)}
EntryBefore(e, f) == e[1] < f[1] \/ (e[1] = f[1] /\ e[2] < f[2])
EntryAt(bs, e) == bs[e[1]][e[2]]

\* the first entry of the flattened sequence with url u
IsFirstWithUrl(bs, e, u) ==
    /\ EntryAt(bs, e).url = u
    /\ \A f \in EntriesOf(bs) : EntryAt(bs, f).url = u => ~EntryBefore(f, e)

\* the places of the output where a source block starts; the block's title, url
\* and content are the tokens 1, 5 and 9 places on
BlockStarts(text) == {p \in 1..Len(text) : text[p] = "Source "}
BlockTitle(text, p) == text[p + 1]
BlockUrl(text, p) == text[p + 5]
BlockContent(text, p) == text[p + 9]

\* C1: for a single batch or a sequence of batches, flattened in order, the output
\* has exactly one source block per distinct url, the block of a url carries the
\* title and content of the first entry with that url, and the blocks are in the
\* order of first appearance of their urls.
C1_FirstOccurrenceWins ==
    (fmt_pc = "done" /\ WellShaped(search_response)) =>
        LET bs == BatchesOf(search_response)
            es == EntriesOf(bs)
            text == fmt_result.text
            starts == BlockStarts(text)
        IN  /\ fmt_result.err = "none"
            /\ \A e \in es :
                  Cardinality({p \in starts : BlockUrl(text, p) = EntryAt(bs, e).url}) = 1
            /\ \A p \in starts :
                  \E e \in es :
                     /\ IsFirstWithUrl(bs, e, BlockUrl(text, p))
                     /\ BlockTitle(text, p) = EntryAt(bs, e).title
                     /\ BlockContent(text, p) = EntryAt(bs, e).content
            /\ \A p \in starts, q \in starts :
                  p < q =>
                     \E e \in es, f \in es :
                        /\ IsFirstWithUrl(bs, e, BlockUrl(text, p))
                        /\ IsFirstWithUrl(bs, f, BlockUrl(text, q))
                        /\ EntryBefore(e, f)

\* a url met in two batches with different titles, and one block written for it
C1_Witness ==
    /\ fmt_pc = "done"
    /\ search_response.kind = "list"
    /\ Len(search_response.elems) = 2
    /\ \A i \in 1..2 : /\ search_response.elems[i].kind = "batch"
                       /\ Len(search_response.elems[i].results) = 1
    /\ search_response.elems[1].results[1].url = search_response.elems[2].results[1].url
    /\ search_response.elems[1].results[1].title # search_response.elems[2].results[1].title
    /\ fmt_result.err = "none"
    /\ Cardinality(BlockStarts(fmt_result.text)) = 1

\* an element of a sequence input that makes the call fail: a value that is not
\* iterable, or a mapping without 'results' that has keys
FailingElement(e) == e.kind = "scalar" \/ (e.kind = "dict" /\ e.keys # <<>>)

\* C9 as stated: the call fails, with no output string, on every input that is
\* neither a result-batch nor a sequence of result-batches (any error counted as
\* the TypeError-equivalent).
C9_FailsOnEveryOtherShape ==
    (fmt_pc = "done" /\ ~WellShaped(search_response)) =>
        fmt_result.err # "none" /\ fmt_result.text = <<>>

\* C9 amended: the call fails with no output string on an input that is neither a
\* mapping nor a sequence (ValueError), on a mapping without 'results' (KeyError)
\* and on a sequence with an element that is not iterable or is a non-empty mapping
\* without 'results' (TypeError); every other sequence is formatted, its elements
\* that are sequences of sources taken as sources and its empty mappings adding
\* nothing.
C9_FailsOnTheseShapes ==
    fmt_pc = "done" =>
        LET sr == search_response
        IN  /\ sr.kind = "scalar" => fmt_result.err = "ValueError"
            /\ sr.kind = "dict" => fmt_result.err = "KeyError"
            /\ sr.kind = "batch" => fmt_result.err = "none"
            /\ sr.kind = "list" =>
                  IF \E i \in 1..Len(sr.elems) : FailingElement(sr.elems[i])
                  THEN fmt_result.err = "TypeError"
                  ELSE /\ fmt_result.err = "none"
                       /\ \A i \in 1..Len(sr.elems) : \A j \in 1..Len(sr.elems[i].results) :
                             \E p \in BlockStarts(fmt_result.text) :
                                BlockUrl(fmt_result.text, p) = sr.elems[i].results[j].url
            /\ fmt_result.err # "none" => fmt_result.text = <<>>

\* a sequence of a result-batch and a value that is not iterable: the call fails
C9_Witness ==
    /\ fmt_pc = "done"
    /\ search_response.kind = "list"
    /\ Len(search_response.elems) = 2
    /\ search_response.elems[1].kind = "batch"
    /\ search_response.elems[1].results # <<>>
    /\ search_response.elems[2].kind = "scalar"
    /\ fmt_result = Raised("TypeError")

\* the places of the output where a raw content follows, in order, and the tokens
\* from there to the end of the line
RawStarts(text) == {p \in 1..Len(text) : text[p] = " tokens:"}
LineEnd(text, p) ==
    IF \E q \in p..Len(text) : text[q] = "\n"
    THEN CHOOSE q \in p..Len(text) :
            text[q] = "\n" /\ \A r \in p..(q - 1) : text[r] # "\n"
    ELSE Len(text) + 1
RestOfLine(text, p) == SubSeq(text, p + 1, LineEnd(text, p) - 1)

\* the k-th raw content of the output: what follows the template's " tokens: "
KthRawStart(text, k) ==
    CHOOSE p \in RawStarts(text) : Cardinality({q \in RawStarts(text) : q <= p}) = k
RenderedRaw(text, k) ==
    LET line == RestOfLine(text, KthRawStart(text, k))
    IN  IF line # <<>> /\ line[1] = " " THEN Tail(line) ELSE line

\* the raw content of a source as a string: "" when missing or None
RawOf(source) == IF source.raw.tag = "str" THEN source.raw.s ELSE <<>>

\* t is raw cut to its first limit characters and the marker when longer than
\* limit, and raw unchanged otherwise
IsCapped(t, raw, limit) ==
    IF Len(raw) > limit
    THEN /\ Len(t) = limit + 1
         /\ \A i \in 1..limit : t[i] = raw[i]
         /\ t[limit + 1] = "... [truncated]"
    ELSE t = raw

\* raw cut to its first limit characters and the marker when longer than limit
CappedText(raw, limit) ==
    IF Len(raw) > limit
    THEN [i \in 1..(limit + 1) |-> IF i <= limit THEN raw[i] ELSE "... [truncated]"]
    ELSE raw

\* t is u without its trailing whitespace
IsRightStripped(t, u) ==
    /\ Len(t) <= Len(u)
    /\ \A i \in 1..Len(t) : t[i] = u[i]
    /\ \A i \in (Len(t) + 1)..Len(u) : u[i] \in {" ", "\n"}
    /\ t # <<>> => t[Len(t)] \notin {" ", "\n"}

\* C10 as stated: with include_raw_content, every source's raw content is written
\* as its first max_tokens_per_source * 4 characters and the marker when longer,
\* and unchanged otherwise.
C10_EveryRawCapped ==
    (fmt_pc = "done" /\ include_raw_content /\ fmt_result.err = "none") =>
        LET rs == search_response.results
            text == fmt_result.text
        IN  /\ Cardinality(RawStarts(text)) = Len(rs)
            /\ \A k \in 1..Len(rs) :
                  IsCapped(RenderedRaw(text, k), RawOf(rs[k]), max_tokens_per_source * 4)

\* C10 amended: as stated for every source but the last; the last source's raw
\* content is written capped in the same way and then without its trailing
\* whitespace, which the strip of the whole output removes.
C10_RawCappedLastStripped ==
    (fmt_pc = "done" /\ include_raw_content /\ fmt_result.err = "none") =>
        LET rs == search_response.results
            text == fmt_result.text
            limit == max_tokens_per_source * 4
        IN  /\ Cardinality(RawStarts(text)) = Len(rs)
            /\ \A k \in 1..(Len(rs) - 1) :
                  IsCapped(RenderedRaw(text, k), RawOf(rs[k]), limit)
            /\ rs # <<>> =>
                  IsRightStripped(RenderedRaw(text, Len(rs)),
                                  CappedText(RawOf(rs[Len(rs)]), limit))

\* a first source whose raw content is longer than the limit and is cut, and a last
\* source whose raw content fits and ends in whitespace
C10_Witness ==
    /\ fmt_pc = "done"
    /\ include_raw_content
    /\ max_tokens_per_source = 1
    /\ Len(search_response.results) = 2
    /\ search_response.results[1].raw = RawStr(<<"a", " ", "a", "a", "a">>)
    /\ search_response.results[2].raw = RawStr(<<"a", " ">>)
    /\ RenderedRaw(fmt_result.text, 1) = <<"a", " ", "a", "a", "... [truncated]">>
    /\ RenderedRaw(fmt_result.text, 2) = <<"a">>

(***************************************************************************)
(* Properties of duckduckgo_search.                                        *)
(***************************************************************************)
\* the attempt ended in an exception whose message holds "Ratelimit"
RateLimited(out) == ~out.ok /\ \E i \in 1..Len(out.msg) : out.msg[i] = "Ratelimit"

\* the attempt ended in an exception that is no rate-limit error
OtherError(out) == ~out.ok /\ ~RateLimited(out)

\* a provider record with url, title and content all there
Complete(r) ==
    /\ ~r.href.is_none /\ r.href.s # ""
    /\ ~r.title.is_none /\ r.title.s # ""
    /\ ~r.body.is_none /\ r.body.s # ""

CompleteIndexes(recs) == {i \in 1..Len(recs) : Complete(recs[i])}

\* rs is the result set of the successful attempt out: one result per complete
\* record, in the provider's order
IsResultSetOf(rs, out, full_page) ==
    /\ Len(rs) = Cardinality(CompleteIndexes(out.records))
    /\ \A i \in CompleteIndexes(out.records) :
          LET k == Cardinality({j \in CompleteIndexes(out.records) : j <= i})
              r == out.records[i]
          IN  /\ rs[k].title = r.title.s
              /\ rs[k].url = r.href.s
              /\ rs[k].content = r.body.s
              /\ rs[k].raw_content =
                    IF full_page /\ ~out.pages[i].is_none THEN out.pages[i].s ELSE r.body.s

\* C2: after zero, one or two rate-limit errors, a successful attempt's result set
\* (its complete records, in provider order) is what the call returns, and it is
\* not empty when the attempt gave a complete record; a rate-limit error on
\* attempt 1 or 2 does not end the call.
C2_ReturnsSuccessfulAttempt ==
    /\ \A k \in 0..2 :
          (/\ ddg_pc = "done"
           /\ Len(provider_log) = k + 1
           /\ \A i \in 1..k : RateLimited(provider_log[i])
           /\ provider_log[k + 1].ok) =>
              /\ ddg_result.err = "none"
              /\ IsResultSetOf(ddg_result.results, provider_log[k + 1], fetch_full_page)
              /\ CompleteIndexes(provider_log[k + 1].records) # {} =>
                    ddg_result.results # <<>>
    /\ \A k \in 1..2 :
          (Len(provider_log) = k /\ RateLimited(provider_log[k])) => ddg_pc # "done"

\* two rate-limit errors, then an attempt that gives a complete record after an
\* incomplete one
C2_Witness ==
    /\ ddg_pc = "done"
    /\ Len(provider_log) = 3
    /\ RateLimited(provider_log[1])
    /\ RateLimited(provider_log[2])
    /\ provider_log[3].ok
    /\ Len(provider_log[3].records) = 2
    /\ ~Complete(provider_log[3].records[1])
    /\ Complete(provider_log[3].records[2])
    /\ Len(ddg_result.results) = 1

\* C3: at most 3 attempts are made and the call then ends; an attempt after the
\* first is made only after rate-limit errors on all attempts before it; when all
\* 3 attempts end in a rate-limit error the call returns no results.
C3_AtMostThreeAttempts ==
    /\ Len(provider_log) <= 3
    /\ \A i \in 1..(Len(provider_log) - 1) : RateLimited(provider_log[i])
    /\ Len(provider_log) = 3 => ddg_pc = "done"
    /\ ddg_pc # "done" => ENABLED NextDdg
    /\ (/\ Len(provider_log) = 3
        /\ \A i \in 1..3 : RateLimited(provider_log[i])) =>
           ddg_result = DdgReturned(<<>>)

\* three attempts, each ended by a rate-limit error
C3_Witness ==
    /\ ddg_pc = "done"
    /\ Len(provider_log) = 3
    /\ \A i \in 1..3 : RateLimited(provider_log[i])
    /\ ddg_result = DdgReturned(<<>>)

\* C4: an attempt that fails with an error that is no rate-limit error is the
\* last one: the call ends there with no results, nothing raised, and no sleep
\* beyond those before that attempt.
C4_OtherErrorAborts ==
    \A i \in 1..Len(provider_log) :
        OtherError(provider_log[i]) =>
            /\ i = Len(provider_log)
            /\ ddg_pc = "done"
            /\ ddg_result = DdgReturned(<<>>)
            /\ Len(slept) = i - 1

\* a rate-limit error, then an error that is no rate-limit error
C4_Witness ==
    /\ Len(provider_log) = 2
    /\ RateLimited(provider_log[1])
    /\ OtherError(provider_log[2])
    /\ ddg_pc = "done"

(***************************************************************************)
(* Properties of local_rag_node.                                           *)
(***************************************************************************)
\* state.search_query is absent (None) or the empty string
QueryAbsentOrEmpty == search_query.is_none \/ search_query.s = ""

\* C5: with search_query absent or empty the node returns an empty local_context
\* and the retriever is never invoked.
C5_NoQueryNoInvocation ==
    (rag_pc = "done" /\ QueryAbsentOrEmpty) =>
        rag_result = Returned(<<>>) /\ invocations = <<>>

\* the node has run on a state whose search_query is the empty string
C5_Witness ==
    /\ rag_pc = "done"
    /\ search_query = PyStr("")
    /\ rag_result = Returned(<<>>)

\* C6: with a non-empty search_query and a retriever that raises, the node
\* returns an empty local_context, raises nothing, and has invoked the retriever
\* exactly once.
C6_RetrieverErrorRecovered ==
    (rag_pc = "done" /\ ~QueryAbsentOrEmpty /\ retrieved.raises) =>
        /\ rag_result.err = "none"
        /\ rag_result.text = <<>>
        /\ invocations = <<search_query.s>>

\* the retriever has raised on the query "test query"
C6_Witness ==
    /\ rag_pc = "done"
    /\ search_query = PyStr("test query")
    /\ retrieved.raises
    /\ Len(invocations) = 1

\* where the i-th document's text starts in the joined text, less one
RECURSIVE OffsetOf(_, _)
OffsetOf(docs, i) ==
    IF i = 1 THEN 0 ELSE OffsetOf(docs, i - 1) + Len(docs[i - 1].text) + 2

\* t holds the documents' texts in order with "\n\n" between neighbours, and
\* nothing else
IsJoined(t, docs) ==
    IF docs = <<>> THEN t = <<>>
    ELSE /\ Len(t) = OffsetOf(docs, Len(docs)) + Len(docs[Len(docs)].text)
         /\ \A i \in 1..Len(docs) :
               SubSeq(t, OffsetOf(docs, i) + 1, OffsetOf(docs, i) + Len(docs[i].text))
                  = docs[i].text
         /\ \A i \in 2..Len(docs) :
               t[OffsetOf(docs, i) - 1] = "\n" /\ t[OffsetOf(docs, i)] = "\n"

\* C7: with a non-empty search_query and a retriever that returns documents, the
\* node invokes the retriever exactly once with that query and returns the
\* documents' page_content values joined in order with "\n\n" (one document: its
\* content unchanged).
C7_JoinsPageContents ==
    (/\ rag_pc = "done"
     /\ ~QueryAbsentOrEmpty
     /\ ~retrieved.raises
     /\ \A i \in 1..Len(retrieved.docs) : retrieved.docs[i].is_str) =>
        /\ invocations = <<search_query.s>>
        /\ rag_result.err = "none"
        /\ IsJoined(rag_result.text, retrieved.docs)
        /\ Len(retrieved.docs) = 1 => rag_result.text = retrieved.docs[1].text

\* two documents with non-empty contents have been joined
C7_Witness ==
    /\ rag_pc = "done"
    /\ search_query = PyStr("test query")
    /\ retrieved = Retrieves(<<PageText(<<"a">>), PageText(<<"a", "\n">>)>>)
    /\ rag_result = Returned(<<"a", "\n", "\n", "a", "\n">>)

(***************************************************************************)
(* Properties of perplexity_search.                                        *)
(***************************************************************************)
\* C8: on every 2xx response that holds choices[0].message.content, with citations
\* absent or present, the call returns results: the first with the answer as
\* content and raw_content and the first citation's url (https://perplexity.ai
\* when citations is absent), then one per remaining citation, in order, with the
\* placeholder content and no raw_content; the n-th title is
\* "Perplexity Search {loop_count+1}, Source {n}".
C8_OneResultPerCitation ==
    (/\ pplx_pc = "done"
     /\ response.status \in 200..299
     /\ response.has_content) =>
        LET rs == pplx_result.results
            cs == response.citations
            n == IF response.has_citations /\ cs # <<>> THEN Len(cs) ELSE 1
        IN  /\ pplx_result.err = "none"
            /\ Len(rs) = n
            /\ rs[1].content = response.content
            /\ rs[1].raw_content = [is_none |-> FALSE, s |-> response.content]
            /\ ~response.has_citations => rs[1].url = "https://perplexity.ai"
            /\ (response.has_citations /\ cs # <<>>) => rs[1].url = cs[1]
            /\ \A i \in 2..n :
                  /\ rs[i].url = cs[i]
                  /\ rs[i].content = "See above for full content"
                  /\ rs[i].raw_content.is_none
            /\ \A i \in 1..n :
                  rs[i].title = <<"Perplexity Search ",
                                  ToString(perplexity_search_loop_count + 1),
                                  ", Source ", ToString(i)>>

\* C8 on the responses whose citations field is absent or holds a url: the same
\* results as C8 states
C8_HoldsWithACitation ==
    (response.has_citations /\ response.citations = <<>>) \/ C8_OneResultPerCitation

(***************************************************************************)
(* The delays of duckduckgo_search.                                        *)
(***************************************************************************)
RECURSIVE TotalOf(_)
TotalOf(ds) == IF ds = <<>> THEN 0 ELSE Head(ds) + TotalOf(Tail(ds))

\* C11: the delay before the k-th retry is 2 * 2^(k-1) time-units; each delay
\* follows a rate-limit failure and is followed by the next attempt, so a call that
\* has ended has slept once less than it has made attempts, with no delay after
\* its final attempt or after an error that is no rate-limit error; the delays of
\* one call add up to at most 6 time-units.
C11_DelaysDoubleFromTwo ==
    /\ \A k \in 1..Len(slept) : slept[k] = 2 * 2 ^ (k - 1)
    /\ Len(slept) <= Len(provider_log)
    /\ \A k \in 1..Len(slept) : RateLimited(provider_log[k])
    /\ ddg_pc = "sleep" => Len(slept) = Len(provider_log) - 1
    /\ ddg_pc = "attempt" => Len(slept) = Len(provider_log)
    /\ ddg_pc = "done" => Len(slept) = Len(provider_log) - 1
    /\ TotalOf(slept) <= 6

\* three attempts, with a delay of 2 before the second and of 4 before the third
C11_Witness ==
    /\ ddg_pc = "done"
    /\ Len(provider_log) = 3
    /\ slept = <<2, 4>>
    /\ TotalOf(slept) = 6

====
